---- MODULE Spec2Model ----
(***************************************************************************)
(* The tool-server client of src/services/mcpClient.ts (class MCPClient):  *)
(* a JSON-RPC client that opens a server-push event stream (EventSource),  *)
(* learns the session address from an "endpoint" event, performs a two     *)
(* call handshake and correlates pushed responses to pending requests by   *)
(* id.                                                                     *)
(*                                                                         *)
(* JavaScript is single threaded: one step of the model is one task of the *)
(* event loop (a caller's invocation, one stream event, one fetch          *)
(* completion) together with every promise continuation it makes runnable, *)
(* because the microtask queue is drained before the next task starts.     *)
(***************************************************************************)
EXTENDS Integers, Sequences, FiniteSets, TLC

VARIABLES
    eventSource,      \* [client -> stream id | NULL]      this.eventSource
    sessionEndpoint,  \* [client -> session url | NULL]    this.sessionEndpoint
    requestId,        \* [client -> Nat]                   this.requestId
    pendingRequests,  \* [client -> [id -> call]]          this.pendingRequests
    streams,          \* one record per EventSource ever constructed or attempted
    ops,              \* one record per getDebateTopic / listTools invocation
    calls,            \* one record per sendRequest invocation
    \* The state of the App component of src/App.tsx that playback reads.
    isLoggedIn, showLoginModal, isPlaying, activeTopic, messages, currentIndex,
    isThinking, currentSpeaker,
    typingTimers,     \* the pending typing timeouts of handleNextTurn, with what they captured
    interTurnTimers   \* how many inter-turn timeouts are pending

mcpVars == <<eventSource, sessionEndpoint, requestId, pendingRequests, streams, ops, calls>>
appVars == <<isLoggedIn, showLoginModal, isPlaying, activeTopic, messages, currentIndex,
             isThinking, currentSpeaker, typingTimers, interTurnTimers>>
vars == <<mcpVars, appVars>>

(***************************************************************************)
(* Bounds of the model.                                                    *)
(***************************************************************************)
MaxOps == 2             \* high-level operations started in one run
MaxCalls == 4           \* sendRequest invocations in one run
MaxEndpointEvents == 2  \* "endpoint" events one stream delivers
MaxCallbacks == 3       \* invocations of one operation's connect callback

Clients == {1, 2}       \* MCPClient instances

NULL == 0               \* null (no stream, no session address)
NoId == -1              \* a message without an id; a call that drew no id
NoTopic == "none"       \* activeTopic null: the topics are not loaded yet
NoSpeaker == "none"     \* currentSpeaker null

EmptyMap == [i \in {} |-> 0]
MapSet(m, i, v) == [j \in (DOMAIN m) \cup {i} |-> IF j = i THEN v ELSE m[j]]
MapDelete(m, i) == [j \in (DOMAIN m) \ {i} |-> m[j]]

(***************************************************************************)
(* Values. A resolved value or an error is a tuple of strings: <<>> is "no *)
(* value", <<"Error", m>> an Error with message m, <<"TypeError">> and     *)
(* <<"SyntaxError">> the engine's errors, <<"Result", r>> the result r of  *)
(* a response, <<"Topic", t>> a parsed topic, <<"Tools", ...>> a tool list.*)
(***************************************************************************)
NoValue == <<>>
Error(m) == <<"Error", m>>

\* The texts a content entry may carry, and JSON.parse on them.
TextX == "{\"title\":\"X\",\"description\":\"Y\",\"code\":\"Z\",\"script\":[]}"
TextW == "{\"title\":\"W\",\"description\":\"Y\",\"code\":\"Z\",\"script\":[]}"
TextBad == "not json"

JsonValid(text) == text \in {TextX, TextW}

JsonParse(text) ==
    CASE text = TextX -> <<"Topic", "X", "Y", "Z">>
      [] text = TextW -> <<"Topic", "W", "Y", "Z">>
      [] OTHER -> <<"SyntaxError">>

(***************************************************************************)
(* The result payloads a response envelope may carry (JsonRpcResponse      *)
(* .result), named by their JSON text. "undefined" is an envelope without  *)
(* a result field.                                                         *)
(***************************************************************************)
HandshakeResults == {"{}"}
ToolResults ==
    {"undefined", "{}", "{tools:[a]}", "{content:[]}", "{content:[image]}",
     "{content:[image,textX,textW]}", "{content:[textBad]}"}

HasContent(r) ==
    r \in {"{content:[]}", "{content:[image]}", "{content:[image,textX,textW]}",
           "{content:[textBad]}"}

Content(r) ==
    CASE r = "{content:[image]}" -> <<[type |-> "image", text |-> ""]>>
      [] r = "{content:[image,textX,textW]}" ->
            <<[type |-> "image", text |-> ""], [type |-> "text", text |-> TextX],
              [type |-> "text", text |-> TextW]>>
      [] r = "{content:[textBad]}" -> <<[type |-> "text", text |-> TextBad]>>
      [] OTHER -> <<>>

ToolsOf(r) == IF r = "{tools:[a]}" THEN <<"a">> ELSE <<>>

\* FindText with the last matching entry taken for the first.
FindTextLast(content) ==
    LET hits == {i \in 1..Len(content) : content[i].type = "text"}
    IN  IF hits = {} THEN 0 ELSE CHOOSE i \in hits : \A j \in hits : i >= j

\* Array.prototype.find with the predicate c.type === 'text': the index of the
\* first matching entry, 0 when there is none.
FindText(content) ==
    LET hits == {i \in 1..Len(content) : content[i].type = "text"}
    IN  IF hits = {} THEN 0 ELSE CHOOSE i \in hits : \A j \in hits : i <= j

(***************************************************************************)
(* The state as one record, so that a handler is a function from state to  *)
(* state and handlers compose the way the code calls them.                 *)
(***************************************************************************)
Cur ==
    [eventSource |-> eventSource, sessionEndpoint |-> sessionEndpoint,
     requestId |-> requestId, pendingRequests |-> pendingRequests,
     streams |-> streams, ops |-> ops, calls |-> calls]

Becomes(S) ==
    /\ eventSource' = S.eventSource
    /\ sessionEndpoint' = S.sessionEndpoint
    /\ requestId' = S.requestId
    /\ pendingRequests' = S.pendingRequests
    /\ streams' = S.streams
    /\ ops' = S.ops
    /\ calls' = S.calls
    /\ UNCHANGED appVars

NoResp == [id |-> NoId, error |-> "", result |-> "undefined"]

\* cleanup on fields shared by every instance.
cleanupShared(S, c) ==
    [S EXCEPT !.streams = [s \in DOMAIN @ |->
                              IF \E d \in Clients : S.eventSource[d] = s
                              THEN [@[s] EXCEPT !.state = "closed"] ELSE @[s]],
              !.eventSource = [d \in Clients |-> NULL],
              !.pendingRequests = [d \in Clients |-> EmptyMap],
              !.sessionEndpoint = [d \in Clients |-> NULL]]

\* cleanup that keeps the session address.
cleanupKeepAddress(S, c) ==
    LET es == S.eventSource[c]
    IN  [S EXCEPT !.streams = IF es # NULL THEN [@ EXCEPT ![es].state = "closed"] ELSE @,
                  !.eventSource[c] = NULL,
                  !.pendingRequests[c] = EmptyMap]

\* cleanup that also starts the id counter again.
cleanupResetId(S, c) ==
    LET es == S.eventSource[c]
    IN  [S EXCEPT !.streams = IF es # NULL THEN [@ EXCEPT ![es].state = "closed"] ELSE @,
                  !.eventSource[c] = NULL,
                  !.pendingRequests[c] = EmptyMap,
                  !.sessionEndpoint[c] = NULL,
                  !.requestId[c] = 0]

\* cleanup rejecting the calls it finds in the map.
cleanupRejectPending(S, c) ==
    LET es == S.eventSource[c]
        m == S.pendingRequests[c]
    IN  [S EXCEPT !.streams = IF es # NULL THEN [@ EXCEPT ![es].state = "closed"] ELSE @,
                  !.eventSource[c] = NULL,
                  !.calls = [j \in DOMAIN @ |->
                               IF \E i \in DOMAIN m : m[i] = j
                               THEN [@[j] EXCEPT !.invoked = @ + 1, !.promise = "rejected"]
                               ELSE @[j]],
                  !.pendingRequests[c] = EmptyMap,
                  !.sessionEndpoint[c] = NULL]

\* private cleanup()
cleanup(S, c) ==
    LET es == S.eventSource[c]
    IN  [S EXCEPT !.streams = IF es # NULL THEN [@ EXCEPT ![es].state = "closed"] ELSE @,
                  !.eventSource[c] = NULL,
                  !.pendingRequests[c] = EmptyMap,
                  !.sessionEndpoint[c] = NULL]

\* resolve / reject of the promise getDebateTopic or listTools returns, invoked
\* from the continuation of call k (0: from no call). Only the first takes effect.
resolveOp(S, o, k, v) ==
    [S EXCEPT !.ops[o] = IF @.state = "pending"
                         THEN [@ EXCEPT !.state = "resolved", !.value = v, !.via = k]
                         ELSE @]

rejectOp(S, o, k, e) ==
    [S EXCEPT !.ops[o] = IF @.state = "pending"
                         THEN [@ EXCEPT !.state = "rejected", !.value = e, !.via = k]
                         ELSE @]

\* sendRequest without its session check.
sendRequestUnchecked(S, c, o, method, params) ==
    LET id == S.requestId[c]
        k == Len(S.calls) + 1
    IN  [S EXCEPT !.requestId[c] = id + 1,
                  !.pendingRequests[c] = MapSet(@, id, k),
                  !.calls = Append(@,
                     [client |-> c, op |-> o, method |-> method, params |-> params,
                      id |-> id, endpoint |-> S.sessionEndpoint[c],
                      post |-> "inflight", promise |-> "pending",
                      resp |-> NoResp, invoked |-> 0,
                      ret |-> "pending", retValue |-> NoValue])]

\* sendRequest sending the POST without having stored the resolvers.
sendRequestLate(S, c, o, method, params) ==
    LET S1 == sendRequestUnchecked(S, c, o, method, params)
    IN  IF S.sessionEndpoint[c] = NULL
        THEN [S EXCEPT !.calls = Append(@,
                [client |-> c, op |-> o, method |-> method, params |-> params,
                 id |-> NoId, endpoint |-> S.sessionEndpoint[c], post |-> "none", promise |-> "none",
                 resp |-> NoResp, invoked |-> 0,
                 ret |-> "rejected", retValue |-> Error("Session not established")])]
        ELSE [S1 EXCEPT !.pendingRequests[c] = S.pendingRequests[c]]

\* private async sendRequest(method, params), up to its await of fetch: the
\* session check, the id, the pending entry, the POST.
sendRequest(S, c, o, method, params) ==
    IF S.sessionEndpoint[c] = NULL
    THEN [S EXCEPT !.calls = Append(@,
            [client |-> c, op |-> o, method |-> method, params |-> params,
             id |-> NoId, endpoint |-> S.sessionEndpoint[c], post |-> "none", promise |-> "none",
             resp |-> NoResp, invoked |-> 0,
             ret |-> "rejected", retValue |-> Error("Session not established")])]
    ELSE LET id == S.requestId[c]
             k == Len(S.calls) + 1
         IN  [S EXCEPT !.requestId[c] = id + 1,
                       !.pendingRequests[c] = MapSet(@, id, k),
                       !.calls = Append(@,
                          [client |-> c, op |-> o, method |-> method, params |-> params,
                           id |-> id, endpoint |-> S.sessionEndpoint[c],
                           post |-> "inflight", promise |-> "pending",
                           resp |-> NoResp, invoked |-> 0,
                           ret |-> "pending", retValue |-> NoValue])]

\* The .catch without its cleanup.
opCatchNoCleanup(S, k, e) == rejectOp(S, S.calls[k].op, k, e)

\* The .catch rejecting with an error of its own in place of the one caught.
opCatchOwnError(S, k, e) ==
    LET o == S.calls[k].op
    IN  rejectOp(cleanup(S, S.ops[o].client), o, k, Error("Tool call failed"))

\* The .catch of getDebateTopic and of listTools: cleanup, then reject.
opCatch(S, k, e) ==
    LET o == S.calls[k].op
    IN  rejectOp(cleanup(S, S.ops[o].client), o, k, e)

\* connect's callback invoked with an error: `if (err) return reject(err)`.
callbackErr(S, o, k, e) ==
    rejectOp([S EXCEPT !.ops[o].callbacks = @ + 1], o, k, e)

\* The catch of the endpoint listener: cleanup, then callback(error).
endpointCatch(S, k, e) ==
    LET o == S.calls[k].op
    IN  callbackErr(cleanup(S, S.ops[o].client), o, k, e)

\* private async callTool(name, args)
callTool(S, c, o, name, args) == sendRequest(S, c, o, "tools/call", <<name, args>>)

\* connect's callback invoked without an error: the operation's own call is
\* issued; a call rejected at once (no session) goes to the operation's catch.
callbackOk(S, o) ==
    LET c == S.ops[o].client
        S0 == [S EXCEPT !.ops[o].callbacks = @ + 1]
        S1 == IF S.ops[o].kind = "getDebateTopic"
              THEN callTool(S0, c, o, "get_debate_topic", "{}")
              ELSE sendRequest(S0, c, o, "tools/list", <<>>)
        k == Len(S1.calls)
    IN  IF S1.calls[k].ret = "rejected" THEN opCatch(S1, k, S1.calls[k].retValue) ELSE S1

\* initializeSession sending its second call without awaiting the first.
initializeSessionBoth(S, c, o) ==
    LET S1 == sendRequest(S, c, o, "initialize",
                          <<"2024-11-05", "{}", "debate-web-client", "1.0">>)
    IN  sendRequest(S1, c, o, "notifications/initialized", <<>>)

\* private async initializeSession(): its first call.
initializeSession(S, c, o) ==
    LET S1 == sendRequest(S, c, o, "initialize",
                          <<"2024-11-05", "{}", "debate-web-client", "1.0">>)
        k == Len(S1.calls)
    IN  IF S1.calls[k].ret = "rejected" THEN endpointCatch(S1, k, S1.calls[k].retValue) ELSE S1

\* initializeSession after its first await: the second call.
initializeSessionNext(S, c, o) ==
    LET S1 == sendRequest(S, c, o, "notifications/initialized", <<>>)
        k == Len(S1.calls)
    IN  IF S1.calls[k].ret = "rejected" THEN endpointCatch(S1, k, S1.calls[k].retValue) ELSE S1

\* The .then returning an empty topic where no text entry is found.
getDebateTopicThenLenient(S, k, r) ==
    LET o == S.calls[k].op
        c == S.ops[o].client
        idx == FindText(Content(r))
    IN  IF ~HasContent(r) THEN opCatch(S, k, <<"TypeError">>)
        ELSE IF idx = 0 THEN resolveOp(cleanup(S, c), o, k, <<"Topic">>)
        ELSE IF ~JsonValid(Content(r)[idx].text) THEN opCatch(S, k, <<"SyntaxError">>)
        ELSE resolveOp(cleanup(S, c), o, k, JsonParse(Content(r)[idx].text))

\* The .then of getDebateTopic on the tools/call result r.
getDebateTopicThen(S, k, r) ==
    LET o == S.calls[k].op
        c == S.ops[o].client
        idx == FindText(Content(r))
    IN  IF ~HasContent(r) THEN opCatch(S, k, <<"TypeError">>)
        ELSE IF idx = 0 THEN opCatch(S, k, Error("No content in tool response"))
        ELSE IF ~JsonValid(Content(r)[idx].text) THEN opCatch(S, k, <<"SyntaxError">>)
        ELSE resolveOp(cleanup(S, c), o, k, JsonParse(Content(r)[idx].text))

\* The .then of listTools without the default for a result that has no tools.
listToolsThenNoDefault(S, k, r) ==
    LET o == S.calls[k].op
        c == S.ops[o].client
        S1 == cleanup(S, c)
    IN  IF r = "undefined" THEN opCatch(S1, k, <<"TypeError">>)
        ELSE resolveOp(S1, o, k, IF r = "{tools:[a]}" THEN <<"Tools", "a">> ELSE NoValue)

\* The .then of listTools on the tools/list result r: cleanup comes first.
listToolsThen(S, k, r) ==
    LET o == S.calls[k].op
        c == S.ops[o].client
        S1 == cleanup(S, c)
    IN  IF r = "undefined" THEN opCatch(S1, k, <<"TypeError">>)
        ELSE resolveOp(S1, o, k, <<"Tools">> \o ToolsOf(r))

\* resume calling back as soon as initialize has returned.
resumeEarly(S, k) ==
    LET call == S.calls[k]
        o == call.op
        ok == call.ret = "fulfilled"
        r == IF ok THEN call.retValue[2] ELSE "undefined"
    IN  CASE call.method \in {"initialize", "notifications/initialized"} ->
                IF ok THEN callbackOk(S, o) ELSE endpointCatch(S, k, call.retValue)
          [] call.method = "tools/call" ->
                IF ok THEN getDebateTopicThen(S, k, r) ELSE opCatch(S, k, call.retValue)
          [] OTHER ->
                IF ok THEN listToolsThen(S, k, r) ELSE opCatch(S, k, call.retValue)

\* What runs when the promise sendRequest returned for call k has settled.
resume(S, k) ==
    LET call == S.calls[k]
        o == call.op
        c == call.client
        ok == call.ret = "fulfilled"
        r == IF ok THEN call.retValue[2] ELSE "undefined"
    IN  CASE call.method = "initialize" ->
                IF ok THEN initializeSessionNext(S, c, o)
                ELSE endpointCatch(S, k, call.retValue)
          [] call.method = "notifications/initialized" ->
                IF ok THEN callbackOk(S, o) ELSE endpointCatch(S, k, call.retValue)
          [] call.method = "tools/call" ->
                IF ok THEN getDebateTopicThen(S, k, r) ELSE opCatch(S, k, call.retValue)
          [] OTHER ->
                IF ok THEN listToolsThen(S, k, r) ELSE opCatch(S, k, call.retValue)

\* sendRequest after its await of fetch: `return promise` settles the returned
\* promise as the pending promise is (or will be) settled.
settleRet(S, k) ==
    LET call == S.calls[k]
    IN  IF call.promise = "resolved"
        THEN [S EXCEPT !.calls[k].ret = "fulfilled",
                       !.calls[k].retValue = <<"Result", call.resp.result>>]
        ELSE [S EXCEPT !.calls[k].ret = "rejected",
                       !.calls[k].retValue = Error(call.resp.error)]

\* The handler run of onmessage for an envelope whose id is pending, rejecting
\* every pending call for an error.
onmessageRejectAll(S, c, data) ==
    LET k == S.pendingRequests[c][data.id]
    IN  [S EXCEPT !.calls = [j \in DOMAIN @ |->
                     IF j = k \/ (data.error # "" /\ @[j].client = c /\ @[j].promise = "pending")
                     THEN [@[j] EXCEPT !.invoked = @ + 1,
                                       !.resp = IF @ = NoResp THEN data ELSE @,
                                       !.promise = IF @ # "pending" THEN @
                                                   ELSE IF data.error # "" THEN "rejected"
                                                   ELSE "resolved"]
                     ELSE @[j]],
                  !.pendingRequests[c] = IF data.error # "" THEN EmptyMap
                                         ELSE MapDelete(@, data.id)]

\* The handler run of onmessage for an envelope whose id is pending: reject or
\* resolve of the entry, then its removal. The continuations of the promise
\* run after the handler has returned.
onmessage(S, c, data) ==
    LET k == S.pendingRequests[c][data.id]
    IN  [S EXCEPT !.calls[k] =
            [@ EXCEPT !.invoked = @ + 1,
                      !.resp = IF @ = NoResp THEN data ELSE @,
                      !.promise = IF @ # "pending" THEN @
                                  ELSE IF data.error # "" THEN "rejected"
                                  ELSE "resolved"],
                  !.pendingRequests[c] = MapDelete(@, data.id)]

\* onmessage leaving the entry it has answered in the map.
connectOnMessageKeep(S, c, data) ==
    IF data.id # NoId /\ data.id \in DOMAIN S.pendingRequests[c]
    THEN LET k == S.pendingRequests[c][data.id]
             S1 == [S EXCEPT !.calls[k] =
                        [@ EXCEPT !.invoked = @ + 1,
                                  !.resp = IF @ = NoResp THEN data ELSE @,
                                  !.promise = IF @ # "pending" THEN @
                                              ELSE IF data.error # "" THEN "rejected"
                                              ELSE "resolved"]]
         IN  IF S1.calls[k].post = "done" /\ S1.calls[k].ret = "pending"
             THEN resume(settleRet(S1, k), k)
             ELSE S1
    ELSE S

\* onmessage answering the oldest pending request instead of the one named.
connectOnMessageOldest(S, c, data) ==
    IF data.id # NoId /\ data.id \in DOMAIN S.pendingRequests[c]
    THEN LET first == CHOOSE i \in DOMAIN S.pendingRequests[c] :
                         \A j \in DOMAIN S.pendingRequests[c] : i <= j
             k == S.pendingRequests[c][first]
             S1 == [S EXCEPT !.calls[k] =
                        [@ EXCEPT !.invoked = @ + 1,
                                  !.resp = IF @ = NoResp THEN data ELSE @,
                                  !.promise = IF @ # "pending" THEN @
                                              ELSE IF data.error # "" THEN "rejected"
                                              ELSE "resolved"],
                              !.pendingRequests[c] = MapDelete(@, first)]
         IN  IF S1.calls[k].post = "done" /\ S1.calls[k].ret = "pending"
             THEN resume(settleRet(S1, k), k)
             ELSE S1
    ELSE S

\* onmessage handing an envelope whose id is not pending to the oldest
\* pending request.
connectOnMessageAny(S, c, data) ==
    LET ids == DOMAIN S.pendingRequests[c]
        first == CHOOSE i \in ids : \A j \in ids : i <= j
        d == IF data.id \in ids THEN data ELSE [data EXCEPT !.id = first]
    IN  IF ids # {}
        THEN LET k == S.pendingRequests[c][d.id]
                 S1 == onmessage(S, c, d)
             IN  IF S1.calls[k].post = "done" /\ S1.calls[k].ret = "pending"
                 THEN resume(settleRet(S1, k), k)
                 ELSE S1
        ELSE S

\* eventSource.onmessage on the stream of operation s, data the parsed envelope.
connectOnMessage(S, c, data) ==
    IF data.id # NoId /\ data.id \in DOMAIN S.pendingRequests[c]
    THEN LET k == S.pendingRequests[c][data.id]
             S1 == onmessage(S, c, data)
         IN  IF S1.calls[k].post = "done" /\ S1.calls[k].ret = "pending"
             THEN resume(settleRet(S1, k), k)
             ELSE S1
    ELSE S

\* The error of onerror.
ConnectionFailed ==
    Error("Connection to MCP Server failed. Make sure 'fastmcp run mcp_server.py' is running on port 8000.")

\* onerror without its cleanup.
connectOnErrorNoCleanup(S, s) ==
    LET c == S.ops[s].client
    IN  IF S.sessionEndpoint[c] = NULL THEN callbackErr(S, s, 0, ConnectionFailed) ELSE S

\* eventSource.onerror on the stream of operation s.
connectOnError(S, s) ==
    LET c == S.ops[s].client
    IN  IF S.sessionEndpoint[c] = NULL
        THEN callbackErr(cleanup(S, c), s, 0, ConnectionFailed)
        ELSE S

\* The 'endpoint' listener on the stream of operation s.
connectOnEndpoint(S, s) ==
    LET c == S.ops[s].client
    IN  initializeSession([S EXCEPT !.sessionEndpoint[c] = s], c, s)

\* The error of connect's catch.
CreateFailed == Error("Failed to create EventSource. Is the server running?")

\* connect going on to install its handlers on a stream that was not constructed.
connectInstall(S, c, o, constructed) ==
    LET S1 == [S EXCEPT !.eventSource[c] = o, !.streams[o].state = "open"]
    IN  IF constructed THEN S1 ELSE callbackErr(S1, o, 0, CreateFailed)

\* connect starting the id counter again for the connection it opens.
connectResetId(S, c, o, constructed) ==
    IF constructed
    THEN [S EXCEPT !.eventSource[c] = o, !.streams[o].state = "open", !.requestId[c] = 0]
    ELSE callbackErr(S, o, 0, CreateFailed)

\* private connect(callback): constructed says whether new EventSource returned.
connect(S, c, o, constructed) ==
    IF constructed
    THEN [S EXCEPT !.eventSource[c] = o, !.streams[o].state = "open"]
    ELSE callbackErr(S, o, 0, CreateFailed)

\* public getDebateTopic() / listTools(): the promise and the call of connect.
startOp(S, c, kind, constructed) ==
    LET o == Len(S.ops) + 1
        S0 == [S EXCEPT !.ops = Append(@, [client |-> c, kind |-> kind, state |-> "pending",
                                           value |-> NoValue, via |-> 0, callbacks |-> 0]),
                        !.streams = Append(@, [state |-> "none", endpoints |-> 0,
                                               erred |-> FALSE])]
    IN  connect(S0, c, o, constructed)

(***************************************************************************)
(* The steps.                                                              *)
(***************************************************************************)
Init ==
    /\ eventSource = [c \in Clients |-> NULL]
    /\ sessionEndpoint = [c \in Clients |-> NULL]
    /\ requestId = [c \in Clients |-> 0]
    /\ pendingRequests = [c \in Clients |-> EmptyMap]
    /\ streams = <<>>
    /\ ops = <<>>
    /\ calls = <<>>
    /\ isLoggedIn = FALSE
    /\ showLoginModal = FALSE
    /\ isPlaying = FALSE
    /\ activeTopic = NoTopic
    /\ messages = <<>>
    /\ currentIndex = 0
    /\ isThinking = FALSE
    /\ currentSpeaker = NoSpeaker
    /\ typingTimers = <<>>
    /\ interTurnTimers = 0

Settled(c) == \A o \in 1..Len(ops) : ops[o].client = c => ops[o].state # "pending"

getDebateTopic(c) ==
    /\ Len(ops) < MaxOps
    /\ \E constructed \in BOOLEAN : Becomes(startOp(Cur, c, "getDebateTopic", constructed))

listTools(c) ==
    /\ Len(ops) < MaxOps
    /\ \E constructed \in BOOLEAN : Becomes(startOp(Cur, c, "listTools", constructed))

\* A step is taken only while it keeps the run within MaxCalls calls.
Within(S) == Len(S.calls) <= MaxCalls /\ Becomes(S)

\* The server pushes an "endpoint" event on stream s.
EndpointEvent(s) ==
    /\ streams[s].state = "open"
    /\ streams[s].endpoints < MaxEndpointEvents
    /\ Within(connectOnEndpoint([Cur EXCEPT !.streams[s].endpoints = @ + 1], s))

\* The transport reports an error on stream s; lost says whether the browser
\* gave the connection up (readyState CLOSED) or is reconnecting.
ErrorEvent(s) ==
    /\ streams[s].state = "open"
    /\ ops[s].callbacks < MaxCallbacks
    /\ \E lost \in BOOLEAN :
         Becomes(connectOnError(
            [Cur EXCEPT !.streams[s].state = IF lost THEN "closed" ELSE @,
                        !.streams[s].erred = @ \/ ops[s].state = "pending"], s))

\* The responses a server may push with id i to client c: the result shapes of
\* the method the pending call asked for, or an error.
Responses(c, i) ==
    LET tools == i \in DOMAIN pendingRequests[c]
                 /\ calls[pendingRequests[c][i]].method \in {"tools/call", "tools/list"}
    IN  {[id |-> i, error |-> "boom", result |-> "undefined"]}
        \cup {[id |-> i, error |-> "", result |-> r] :
                r \in IF tools THEN ToolResults ELSE HandshakeResults}

\* The server pushes a message event on stream s.
MessageEvent(s) ==
    /\ streams[s].state = "open"
    /\ \E i \in {NoId} \cup (0..MaxCalls) : \E data \in Responses(ops[s].client, i) :
         Within(connectOnMessage(Cur, ops[s].client, data))

\* The fetch of call k completes: the POST was delivered.
PostDone(k) ==
    /\ calls[k].post = "inflight"
    /\ LET S1 == [Cur EXCEPT !.calls[k].post = "done"]
       IN  Within(IF S1.calls[k].promise # "pending" THEN resume(settleRet(S1, k), k) ELSE S1)

\* The fetch of call k fails (a network error): sendRequest throws.
FetchFailed == <<"TypeError", "Failed to fetch">>


PostFail(k) ==
    /\ calls[k].post = "inflight"
    /\ Becomes(resume([Cur EXCEPT !.calls[k].post = "failed",
                                  !.calls[k].ret = "rejected",
                                  !.calls[k].retValue = FetchFailed], k))

Events ==
    \/ \E s \in 1..Len(streams) : EndpointEvent(s)
    \/ \E s \in 1..Len(streams) : ErrorEvent(s)
    \/ \E s \in 1..Len(streams) : MessageEvent(s)
    \/ \E k \in 1..Len(calls) : PostDone(k)
    \/ \E k \in 1..Len(calls) : PostFail(k)

\* One instance, used as src/App.tsx uses it: an operation is started only when
\* the earlier ones on the instance have settled.
Next ==
    \/ Settled(1) /\ getDebateTopic(1)
    \/ Settled(1) /\ listTools(1)
    \/ Events

Spec == Init /\ [][Next]_vars

\* One instance on which operations are started while earlier ones are pending,
\* against a server that announces each session once and a network that
\* delivers every POST.
NextConc ==
    \/ getDebateTopic(1)
    \/ listTools(1)
    \/ \E s \in 1..Len(streams) : streams[s].endpoints = 0 /\ EndpointEvent(s)
    \/ \E s \in 1..Len(streams) : ErrorEvent(s)
    \/ \E s \in 1..Len(streams) : MessageEvent(s)
    \/ \E k \in 1..Len(calls) : PostDone(k)

SpecConc == Init /\ [][NextConc]_vars


\* Two instances, each used for one operation after another, the operations
\* of the two overlapping freely, against a server that announces each
\* session once.
NextTwo ==
    \/ \E c \in Clients : Settled(c) /\ getDebateTopic(c)
    \/ \E c \in Clients : Settled(c) /\ listTools(c)
    \/ \E s \in 1..Len(streams) : streams[s].endpoints = 0 /\ EndpointEvent(s)
    \/ \E s \in 1..Len(streams) : ErrorEvent(s)
    \/ \E s \in 1..Len(streams) : MessageEvent(s)
    \/ \E k \in 1..Len(calls) : PostDone(k)
    \/ \E k \in 1..Len(calls) : PostFail(k)

SpecTwo == Init /\ [][NextTwo]_vars


(***************************************************************************)
(* The playback of src/App.tsx. A step is one event handler or timer       *)
(* callback with the render it causes and the effects of that render: the  *)
(* state updates of one callback are applied together, and the Main Loop   *)
(* effect runs on the state they leave.                                    *)
(***************************************************************************)
MaxTimers == 2          \* timeouts pending at once

Topics == {"A", "B", "C", "D", "E"}
ScriptLen(topic) ==
    CASE topic = "A" -> 2 [] topic = "B" -> 1 [] topic = "C" -> 3 [] topic = "D" -> 4 [] OTHER -> 0

\* activeTopic.script: the messages of a topic, the speakers taking turns.
Script(topic) ==
    [i \in 1..ScriptLen(topic) |->
        [id |-> <<topic, i>>, speaker |-> IF i % 2 = 1 THEN "Tutor AI" ELSE "Student AI"]]

AppCur ==
    [isLoggedIn |-> isLoggedIn, showLoginModal |-> showLoginModal,
     isPlaying |-> isPlaying, activeTopic |-> activeTopic, messages |-> messages,
     currentIndex |-> currentIndex, isThinking |-> isThinking,
     currentSpeaker |-> currentSpeaker, typingTimers |-> typingTimers,
     interTurnTimers |-> interTurnTimers]

\* handleNextTurn whose timeout always takes another turn to follow.
handleNextTurnNoEnd(A) ==
    LET script == Script(A.activeTopic)
    IN  IF A.activeTopic = NoTopic THEN A
        ELSE IF A.currentIndex >= Len(script)
        THEN [A EXCEPT !.isPlaying = FALSE, !.currentSpeaker = NoSpeaker]
        ELSE LET nextMsg == script[A.currentIndex + 1]
             IN  [A EXCEPT !.currentSpeaker = nextMsg.speaker,
                           !.isThinking = TRUE,
                           !.typingTimers = Append(@, [nextMsg |-> nextMsg, more |-> TRUE])]

\* handleNextTurn: the turn at currentIndex starts its typing phase; the
\* timeout captures the message and whether it is the last of the script.
handleNextTurn(A) ==
    LET script == Script(A.activeTopic)
    IN  IF A.activeTopic = NoTopic THEN A
        ELSE IF A.currentIndex >= Len(script)
        THEN [A EXCEPT !.isPlaying = FALSE, !.currentSpeaker = NoSpeaker]
        ELSE LET nextMsg == script[A.currentIndex + 1]
             IN  [A EXCEPT !.currentSpeaker = nextMsg.speaker,
                           !.isThinking = TRUE,
                           !.typingTimers =
                               Append(@, [nextMsg |-> nextMsg,
                                          more |-> A.currentIndex + 1 < Len(script)])]

\* The Main Loop effect on the state a render shows.
MainLoop(A) ==
    IF /\ A.isPlaying /\ ~A.isThinking /\ A.activeTopic # NoTopic
       /\ A.currentIndex < Len(Script(A.activeTopic))
       /\ A.currentSpeaker = NoSpeaker
    THEN handleNextTurn(A)
    ELSE A

\* The step to state A and the effects of its render, while the timeouts
\* pending stay within MaxTimers.
Renders(A) ==
    LET B == MainLoop(A)
    IN  /\ Len(B.typingTimers) + B.interTurnTimers <= MaxTimers
        /\ isLoggedIn' = B.isLoggedIn
        /\ showLoginModal' = B.showLoginModal
        /\ isPlaying' = B.isPlaying
        /\ activeTopic' = B.activeTopic
        /\ messages' = B.messages
        /\ currentIndex' = B.currentIndex
        /\ isThinking' = B.isThinking
        /\ currentSpeaker' = B.currentSpeaker
        /\ typingTimers' = B.typingTimers
        /\ interTurnTimers' = B.interTurnTimers
        /\ UNCHANGED mcpVars

\* The page shows its controls once a topic is loaded.
Rendered == activeTopic # NoTopic

\* initData: the topics are loaded and the first one becomes active.
initData ==
    /\ activeTopic = NoTopic
    /\ Renders([AppCur EXCEPT !.activeTopic = "A"])

\* togglePlay taking the state without asking for a login.
togglePlayUngated(A) == [A EXCEPT !.isPlaying = ~A.isPlaying]

\* togglePlay
togglePlay(A) ==
    IF ~A.isLoggedIn
    THEN [A EXCEPT !.showLoginModal = TRUE]
    ELSE [A EXCEPT !.isPlaying = ~A.isPlaying]

TogglePlay == Rendered /\ Renders(togglePlay(AppCur))

\* handleTopicSelect(topic)
handleTopicSelect(A, topic) ==
    [A EXCEPT !.activeTopic = topic, !.isPlaying = FALSE, !.messages = <<>>,
              !.currentIndex = 0, !.currentSpeaker = NoSpeaker]

TopicSelect == Rendered /\ \E topic \in Topics : Renders(handleTopicSelect(AppCur, topic))

\* The typing timeout i fires.
TypingTimeout(i) ==
    LET timer == typingTimers[i]
        rest == [j \in 1..(Len(typingTimers) - 1) |->
                    IF j < i THEN typingTimers[j] ELSE typingTimers[j + 1]]
        A == [AppCur EXCEPT !.messages = Append(@, timer.nextMsg),
                            !.isThinking = FALSE,
                            !.currentIndex = @ + 1,
                            !.typingTimers = rest]
    IN  Renders(IF timer.more
                THEN [A EXCEPT !.interTurnTimers = @ + 1]
                ELSE [A EXCEPT !.isPlaying = FALSE, !.currentSpeaker = NoSpeaker])

\* An inter-turn timeout fires.
InterTurnTimeout ==
    /\ interTurnTimers > 0
    /\ Renders([AppCur EXCEPT !.interTurnTimers = @ - 1, !.currentSpeaker = NoSpeaker])

\* The listener of supabase.auth.onAuthStateChange (and getSession at start).
onAuthStateChange == \E session \in BOOLEAN : Renders([AppCur EXCEPT !.isLoggedIn = session])

\* handleLoginSubmit once the sign-in has returned a session.
handleLoginSubmit ==
    /\ Rendered /\ showLoginModal
    /\ Renders([AppCur EXCEPT !.isLoggedIn = TRUE, !.showLoginModal = FALSE])

\* Header onLogin; the close button of the login modal.
onLogin == Rendered /\ Renders([AppCur EXCEPT !.showLoginModal = TRUE])
closeLoginModal == Rendered /\ showLoginModal /\ Renders([AppCur EXCEPT !.showLoginModal = FALSE])

\* Header onLogout
onLogout ==
    /\ Rendered
    /\ Renders([AppCur EXCEPT !.isLoggedIn = FALSE, !.isPlaying = FALSE])

NextApp ==
    \/ initData
    \/ TogglePlay
    \/ TopicSelect
    \/ \E i \in 1..Len(typingTimers) : TypingTimeout(i)
    \/ InterTurnTimeout
    \/ onAuthStateChange
    \/ handleLoginSubmit
    \/ onLogin
    \/ closeLoginModal
    \/ onLogout

SpecApp == Init /\ [][NextApp]_vars

\* Nothing of a playback is under way: not playing, no turn thinking, no
\* timeout pending.
Idle == ~isPlaying /\ ~isThinking /\ typingTimers = <<>> /\ interTurnTimers = 0

\* A playback left to run: the user acts only while nothing of a playback is
\* under way, and a playback once started is driven by its timeouts alone,
\* each of which fires in the end; the session may change at any time.
NextPlay ==
    \/ initData
    \/ Idle /\ TogglePlay
    \/ Idle /\ TopicSelect
    \/ \E i \in 1..Len(typingTimers) : TypingTimeout(i)
    \/ InterTurnTimeout
    \/ onAuthStateChange
    \/ Idle /\ handleLoginSubmit
    \/ Idle /\ onLogin
    \/ Idle /\ closeLoginModal
    \/ Idle /\ onLogout

SpecPlay ==
    /\ Init /\ [][NextPlay]_vars
    /\ WF_vars(\E i \in 1..Len(typingTimers) : TypingTimeout(i))
    /\ WF_vars(InterTurnTimeout)


(***************************************************************************)
(* Helpers of the properties.                                              *)
(***************************************************************************)
CallIds == 1..Len(calls)
OpIds == 1..Len(ops)
Posted(k) == calls[k].post # "none"
Registered(k) ==
    /\ calls[k].id \in DOMAIN pendingRequests[calls[k].client]
    /\ pendingRequests[calls[k].client][calls[k].id] = k
StreamOpen(s) == streams[s].state = "open"

\* The step in which stream s delivers the envelope data to onmessage.
MessageStep(s, data) ==
    /\ StreamOpen(s)
    /\ Becomes(connectOnMessage(Cur, ops[s].client, data))

\* What every call record shows of its continuation and of its return.
C1_Correlated ==
    \A k \in CallIds :
        LET call == calls[k] IN
        /\ call.invoked <= 1
        /\ call.invoked = 1 =>
              /\ call.resp.id = call.id
              /\ ~Registered(k)
              /\ call.promise = IF call.resp.error # "" THEN "rejected" ELSE "resolved"
        /\ call.invoked = 0 => call.promise \in {"pending", "none"} /\ call.resp = NoResp
        /\ call.ret = "fulfilled" =>
              call.invoked = 1 /\ call.retValue = <<"Result", call.resp.result>>
        /\ (call.ret = "rejected" /\ call.post = "done") =>
              call.invoked = 1 /\ call.retValue = Error(call.resp.error)

\* What one delivery of a message whose id is registered does.
C1_Dispatch ==
    \A s \in 1..Len(streams) : \A i \in 0..MaxCalls :
        \A data \in Responses(ops[s].client, i) :
            (MessageStep(s, data) /\ i \in DOMAIN pendingRequests[ops[s].client]) =>
                LET k == pendingRequests[ops[s].client][i] IN
                /\ calls'[k].invoked = calls[k].invoked + 1
                /\ calls'[k].resp = data
                /\ \A j \in CallIds \ {k} :
                      calls'[j].invoked = calls[j].invoked /\ calls'[j].resp = calls[j].resp

(***************************************************************************)
(* C1. Calls in flight together are each answered exactly once and by id:  *)
(* whatever the order of the responses, a call's continuation is invoked   *)
(* at most once, only by a response carrying the call's own id, and it     *)
(* settles as that response says (its result, or its error message); and a *)
(* response whose id is registered invokes exactly that call's             *)
(* continuation, once, and no other call's.                                *)
(***************************************************************************)
C1_ExactlyOnceById == [](C1_Correlated) /\ [][C1_Dispatch]_vars

\* Two calls in flight together, the later one answered first.
C1_Witness ==
    \E k1, k2 \in CallIds :
        /\ k1 < k2
        /\ calls[k1].client = calls[k2].client
        /\ Registered(k1) /\ calls[k1].invoked = 0
        /\ calls[k2].invoked = 1 /\ calls[k2].ret # "pending"

(***************************************************************************)
(* C2. An operation that has settled (resolved or rejected, at whatever    *)
(* stage) has no open stream: the stream opened for it is closed.          *)
(***************************************************************************)
C2_SettledStreamClosed ==
    \A o \in OpIds : ops[o].state # "pending" => ~StreamOpen(o)

\* Operations that settled after their stream had been opened: one resolved,
\* one rejected.
C2_Witness ==
    \E o1, o2 \in OpIds :
        /\ ops[o1].state = "resolved" /\ streams[o1].state = "closed"
        /\ ops[o2].state = "rejected" /\ streams[o2].state = "closed"
        /\ ops[o2].via # 0

(***************************************************************************)
(* C3. A transport error on the stream of an operation that has not yet    *)
(* settled rejects the operation and closes the stream, at every stage.    *)
(***************************************************************************)
C3_ErrorRejectsAndCloses ==
    \A s \in 1..Len(streams) :
        streams[s].erred => ops[s].state = "rejected" /\ ~StreamOpen(s)

(***************************************************************************)
(* C4. No POST without a session address: a sendRequest invoked while      *)
(* sessionEndpoint is null is rejected with "Session not established",     *)
(* draws no id, registers nothing and sends no POST; every POST was sent   *)
(* to a non-null session address.                                          *)
(***************************************************************************)
C4_NoPostWithoutSession ==
    \A k \in CallIds :
        LET call == calls[k] IN
        /\ Posted(k) <=> call.endpoint # NULL
        /\ ~Posted(k) =>
              /\ call.ret = "rejected"
              /\ call.retValue = Error("Session not established")
              /\ call.id = NoId
              /\ \A i \in DOMAIN pendingRequests[call.client] :
                    pendingRequests[call.client][i] # k

\* A sendRequest that found no session address.
C4_Witness == \E k \in CallIds : calls[k].endpoint = NULL /\ calls[k].ret = "rejected"


(***************************************************************************)
(* C5. One connection per instance: every open stream of an instance is    *)
(* the one its eventSource field holds, so there are never two open        *)
(* streams, nor an open stream the instance has lost the handle of.        *)
(***************************************************************************)
C5_OneConnection ==
    \A s \in 1..Len(streams) : StreamOpen(s) => eventSource[ops[s].client] = s

(***************************************************************************)
(* C6. Request ids are strictly increasing in issuance order on one        *)
(* instance, across operations and teardowns: of two envelopes of one      *)
(* instance the later carries the greater id.                              *)
(***************************************************************************)
C6_IdsStrictlyIncrease ==
    \A k1, k2 \in CallIds :
        (k1 < k2 /\ Posted(k1) /\ Posted(k2) /\ calls[k1].client = calls[k2].client)
            => calls[k1].id < calls[k2].id

\* Envelopes sent by two operations of one instance, with a teardown between.
C6_Witness ==
    \E k1, k2 \in CallIds :
        /\ Posted(k1) /\ Posted(k2)
        /\ calls[k1].client = calls[k2].client
        /\ calls[k1].op < calls[k2].op
        /\ ops[calls[k1].op].state # "pending"

\* The method of the call the operation itself makes after the handshake.
CallerMethod(o) == IF ops[o].kind = "getDebateTopic" THEN "tools/call" ELSE "tools/list"

\* The methods operation o has POSTed, in the order sent.
PostsOf(o) == SelectSeq([k \in CallIds |-> IF Posted(k) /\ calls[k].op = o
                                           THEN calls[k].method ELSE ""],
                        LAMBDA m : m # "")

(***************************************************************************)
(* C7. One operation sends each protocol call once and in order: its POSTs *)
(* are a prefix of initialize, notifications/initialized, the operation's  *)
(* own call; a resolved operation has sent exactly the three.              *)
(***************************************************************************)
C7_OnePostPerCall ==
    \A o \in OpIds :
        LET want == <<"initialize", "notifications/initialized", CallerMethod(o)>>
            sent == PostsOf(o)
        IN  /\ Len(sent) <= 3
            /\ sent = SubSeq(want, 1, Len(sent))
            /\ ops[o].state = "resolved" => Len(sent) = 3

(***************************************************************************)
(* C8. A resolved getDebateTopic returns the parse of the text of the      *)
(* first content entry of type "text" of the result of a tools/call that   *)
(* named get_debate_topic with empty arguments, and its stream is closed.  *)
(***************************************************************************)
C8_FirstTextParsed ==
    \A o \in OpIds :
        (ops[o].kind = "getDebateTopic" /\ ops[o].state = "resolved") =>
            /\ ops[o].via \in CallIds
            /\ LET call == calls[ops[o].via]
                   content == Content(call.resp.result)
               IN  /\ call.op = o
                   /\ call.method = "tools/call"
                   /\ call.params = <<"get_debate_topic", "{}">>
                   /\ call.invoked = 1 /\ call.resp.error = ""
                   /\ \E i \in 1..Len(content) :
                         /\ content[i].type = "text"
                         /\ \A j \in 1..(i - 1) : content[j].type # "text"
                         /\ ops[o].value = JsonParse(content[i].text)
            /\ ~StreamOpen(o)

\* A topic returned from a result whose first entry is no text and which holds
\* a second text entry.
C8_Witness ==
    \E o \in OpIds :
        /\ ops[o].kind = "getDebateTopic" /\ ops[o].state = "resolved"
        /\ calls[ops[o].via].resp.result = "{content:[image,textX,textW]}"
        /\ ops[o].value = <<"Topic", "X", "Y", "Z">>

\* Call k is a getDebateTopic's tools/call, delivered and answered by an error.
ErrorAnswered(k) ==
    /\ calls[k].method = "tools/call"
    /\ ops[calls[k].op].kind = "getDebateTopic"
    /\ calls[k].post = "done"
    /\ calls[k].invoked = 1
    /\ calls[k].resp.error # ""

Malformed(r) ==
    \/ \A i \in 1..Len(Content(r)) : Content(r)[i].type # "text"
    \/ \E i \in 1..Len(Content(r)) :
          /\ Content(r)[i].type = "text"
          /\ \A j \in 1..(i - 1) : Content(r)[j].type # "text"
          /\ ~JsonValid(Content(r)[i].text)

\* Call k is a getDebateTopic's tools/call that returned a malformed result.
MalformedAnswered(k) ==
    /\ calls[k].method = "tools/call"
    /\ ops[calls[k].op].kind = "getDebateTopic"
    /\ calls[k].ret = "fulfilled"
    /\ Malformed(calls[k].resp.result)

C11_ListToolsResult ==
    \A o \in OpIds :
        (ops[o].kind = "listTools" /\ ops[o].state = "resolved") =>
            /\ ops[o].via \in CallIds
            /\ LET call == calls[ops[o].via]
                   r == call.resp.result
               IN  /\ call.op = o
                   /\ call.method = "tools/list"
                   /\ call.invoked = 1 /\ call.resp.error = ""
                   /\ r = "{tools:[a]}" => ops[o].value = <<"Tools", "a">>
                   /\ r # "{tools:[a]}" => ops[o].value = <<"Tools">>
                   /\ r # "undefined"
            /\ ~StreamOpen(o)
            /\ o = Len(ops) =>
                  /\ pendingRequests[ops[o].client] = EmptyMap
                  /\ sessionEndpoint[ops[o].client] = NULL
                  /\ eventSource[ops[o].client] = NULL

\* A listTools resolved with the empty sequence for the result {}, after an
\* earlier operation on the instance, with the session torn down.
C11_Witness ==
    \E o \in OpIds :
        /\ o = Len(ops) /\ o > 1
        /\ ops[o].kind = "listTools" /\ ops[o].state = "resolved"
        /\ calls[ops[o].via].resp.result = "{}"
        /\ ops[o].value = <<"Tools">>
        /\ streams[o].state = "closed"

\* The instance of operation o holds no session state.
TornDown(o) ==
    /\ pendingRequests[ops[o].client] = EmptyMap
    /\ sessionEndpoint[ops[o].client] = NULL
    /\ eventSource[ops[o].client] = NULL

(***************************************************************************)
(* C12. A stream error before the endpoint event fails the session: the    *)
(* stream is closed, the operation is rejected with the connection-failure *)
(* error by the one invocation of connect's callback, no sendRequest was   *)
(* ever made for the operation and no POST ever went to its session; and   *)
(* while no later operation has started, the instance holds no pending     *)
(* entry, no session address and no stream handle.                         *)
(***************************************************************************)
C12_ErrorBeforeEndpointFails ==
    \A s \in 1..Len(streams) :
        (streams[s].erred /\ streams[s].endpoints = 0) =>
            /\ ~StreamOpen(s)
            /\ ops[s].state = "rejected"
            /\ ops[s].value = ConnectionFailed
            /\ ops[s].via = 0
            /\ ops[s].callbacks = 1
            /\ \A k \in CallIds : calls[k].op # s /\ calls[k].endpoint # s
            /\ s = Len(ops) => TornDown(s)

\* A session failed by a stream error before its endpoint event, on an
\* instance whose earlier operation had sent calls.
C12_Witness ==
    \E s \in 1..Len(streams) :
        /\ s > 1 /\ streams[s].erred /\ streams[s].endpoints = 0
        /\ ops[s].state = "rejected" /\ ops[s].value = ConnectionFailed
        /\ \E k \in CallIds : Posted(k) /\ calls[k].op < s

\* What the record of an operation whose stream was not constructed shows.
C13_Failed ==
    \A o \in OpIds :
        (streams[o].state = "none" \/ ops[o].value = CreateFailed) =>
            /\ streams[o].state = "none"
            /\ streams[o].endpoints = 0 /\ ~streams[o].erred
            /\ ops[o].state = "rejected"
            /\ ops[o].value = CreateFailed
            /\ ops[o].via = 0
            /\ ops[o].callbacks = 1
            /\ eventSource[ops[o].client] # o
            /\ \A k \in CallIds : calls[k].op # o /\ calls[k].endpoint # o

\* What the step that starts such an operation does.
C13_Step ==
    (Len(ops') = Len(ops) + 1 /\ streams'[Len(ops')].state = "none") =>
        /\ ops'[Len(ops')].state = "rejected"
        /\ UNCHANGED <<requestId, pendingRequests, calls, sessionEndpoint, eventSource>>

(***************************************************************************)
(* C13. When the EventSource cannot be constructed the operation fails in  *)
(* the step that started it: it is rejected with "Failed to create         *)
(* EventSource. Is the server running?" by the one invocation of the       *)
(* callback; no handler is installed (the stream never delivers an event), *)
(* no sendRequest is made, and the step leaves the id counter, the pending *)
(* map, the session address and the stream handle as they were.            *)
(***************************************************************************)
C13_ConstructionFailure == [](C13_Failed) /\ [][C13_Step]_vars

\* A construction failure on an instance whose counter an earlier operation
\* had advanced.
C13_Witness ==
    \E o \in OpIds :
        /\ o > 1 /\ streams[o].state = "none"
        /\ ops[o].state = "rejected" /\ ops[o].value = CreateFailed
        /\ requestId[ops[o].client] > 0

\* Call k has been delivered to a session whose endpoint is known and waits
\* for its response: its entry is in the map, its continuation has not been
\* invoked, the operation is pending and the instance has not closed the
\* stream (it holds the handle and the session address).
Waiting(k) ==
    LET c == calls[k].client
        s == calls[k].endpoint
    IN  /\ calls[k].post = "done"
        /\ calls[k].invoked = 0 /\ calls[k].ret = "pending"
        /\ Registered(k)
        /\ ops[calls[k].op].state = "pending"
        /\ s # NULL /\ eventSource[c] = s /\ sessionEndpoint[c] = s

(***************************************************************************)
(* C14. No timeout or cancellation: a call that waits for its response     *)
(* goes on waiting (entry in the map, continuation not invoked, operation  *)
(* pending, stream not closed) through every step but the delivery of a    *)
(* message with its id.                                                    *)
(***************************************************************************)
C14_WaitsForever ==
    [][\A k \in CallIds :
          Waiting(k) => (Waiting(k))' \/ calls'[k].invoked = 1]_vars

\* The stage of the session of operation o: 1 Connecting, 2 Handshaking (the
\* endpoint event was received), 3 Ready (connect called back without an
\* error), 4 Completed, 5 Failed. Idle is the operation not yet started.
Stage(o) ==
    CASE ops[o].state = "resolved" -> 4
      [] ops[o].state = "rejected" -> 5
      [] ops[o].callbacks > 0 -> 3
      [] streams[o].endpoints > 0 -> 2
      [] OTHER -> 1

\* A session that has reached Completed or Failed stays as it is: the
\* operation keeps its outcome, the stream is not opened again, the session
\* address is not this session's again, no call of the session is answered
\* and no further call of the session is POSTed.
C15_Terminal ==
    \A o \in OpIds :
        ops[o].state # "pending" =>
            /\ ops'[o].state = ops[o].state /\ ops'[o].value = ops[o].value
            /\ ~(StreamOpen(o))'
            /\ sessionEndpoint'[ops[o].client] # o
            /\ \A k \in CallIds : calls[k].op = o => calls'[k].invoked = calls[k].invoked
            /\ \A k \in 1..Len(calls') :
                  (k > Len(calls) /\ calls'[k].op = o) => calls'[k].post = "none"

\* The stages are passed in order: a started operation is Connecting or
\* Failed, and a step moves a session to the next stage or to Failed.
C15_Order ==
    /\ \A o \in OpIds :
          \/ (Stage(o))' = Stage(o)
          \/ Stage(o) < 4 /\ (Stage(o))' \in {Stage(o) + 1, 5}
    /\ \A o \in 1..Len(ops') : o > Len(ops) => (Stage(o))' \in {1, 5}

(***************************************************************************)
(* C15. Completed and Failed are terminal: once an operation has settled,  *)
(* nothing of its session sends a POST, invokes a continuation, opens the  *)
(* stream again or sets the session address again; and the stages are      *)
(* passed in the order Connecting, Handshaking, Ready, Completed, with     *)
(* Failed reachable from every stage before Completed.                     *)
(***************************************************************************)
C15_TerminalStates == [][C15_Terminal /\ C15_Order]_vars

\* The step is one of instance c: an operation started on it, an event of one
\* of its streams, the completion of one of its fetches.
StepOf(c) ==
    \/ getDebateTopic(c)
    \/ listTools(c)
    \/ \E s \in 1..Len(streams) :
          ops[s].client = c /\ (EndpointEvent(s) \/ ErrorEvent(s) \/ MessageEvent(s))
    \/ \E k \in CallIds : calls[k].client = c /\ (PostDone(k) \/ PostFail(k))

\* The step leaves instance d as it is: its fields, and the records of its
\* operations, streams and calls; and it starts nothing on d.
Untouched(d) ==
    /\ eventSource'[d] = eventSource[d]
    /\ sessionEndpoint'[d] = sessionEndpoint[d]
    /\ requestId'[d] = requestId[d]
    /\ pendingRequests'[d] = pendingRequests[d]
    /\ \A o \in 1..Len(ops') :
          ops'[o].client = d => o \in OpIds /\ ops'[o] = ops[o] /\ streams'[o] = streams[o]
    /\ \A k \in 1..Len(calls') :
          calls'[k].client = d => k \in CallIds /\ calls'[k] = calls[k]

\* Every field of an instance refers to the instance's own streams and calls.
C16_Own ==
    /\ \A c \in Clients :
          /\ eventSource[c] # NULL => ops[eventSource[c]].client = c
          /\ sessionEndpoint[c] # NULL => ops[sessionEndpoint[c]].client = c
          /\ \A i \in DOMAIN pendingRequests[c] :
                LET k == pendingRequests[c][i]
                IN  calls[k].client = c /\ calls[k].id = i
    /\ \A k \in CallIds :
          /\ ops[calls[k].op].client = calls[k].client
          /\ calls[k].endpoint # NULL => ops[calls[k].endpoint].client = calls[k].client
    /\ \A o \in OpIds :
          ops[o].via # 0 => calls[ops[o].via].client = ops[o].client

(***************************************************************************)
(* C16. Two instances are independent: a step of one instance (an          *)
(* operation started, an endpoint, message or error event, a fetch         *)
(* completing, with the sendRequest and cleanup they run) leaves the other *)
(* instance's stream handle, session address, id counter, pending map,     *)
(* operations, streams and calls unchanged, and the fields of an instance  *)
(* only ever refer to its own streams and calls.                           *)
(***************************************************************************)
C16_Independent ==
    /\ [](C16_Own)
    /\ [][\A c \in Clients : StepOf(c) => \A d \in Clients \ {c} : Untouched(d)]_vars

\* Both instances in a session at once, their calls interleaved, and one
\* operation settled through cleanup while the other instance keeps its
\* session.
C16_Witness ==
    \E o1, o2 \in OpIds :
        /\ ops[o1].client # ops[o2].client
        /\ ops[o1].state # "pending" /\ ops[o1].via # 0
        /\ ops[o2].state = "pending" /\ StreamOpen(o2)
        /\ sessionEndpoint[ops[o2].client] = o2
        /\ pendingRequests[ops[o2].client] # EmptyMap
        /\ \E k1, k2 \in CallIds :
              k1 < k2 /\ k2 < ops[o1].via /\ calls[k1].op = o1 /\ calls[k2].op = o2

(***************************************************************************)
(* C17. Playback start is gated on authentication: togglePlay invoked      *)
(* while isLoggedIn is false leaves isPlaying as it is, whatever its       *)
(* value, and opens the login modal; and isPlaying becomes true only by    *)
(* togglePlay in a state where isLoggedIn is true.                         *)
(***************************************************************************)
C17_PlayGated ==
    [][/\ (TogglePlay /\ ~isLoggedIn) => (isPlaying' = isPlaying /\ showLoginModal')
       /\ (~isPlaying /\ isPlaying') => (isLoggedIn /\ TogglePlay)]_vars

(***************************************************************************)
(* C17 as stated: togglePlay invoked while isLoggedIn is false finds       *)
(* isPlaying false and leaves it false, and opens the login modal; and     *)
(* isPlaying becomes true only by togglePlay in a state where isLoggedIn   *)
(* is true.                                                                *)
(***************************************************************************)
C17_PlayGatedFalse ==
    [][/\ (TogglePlay /\ ~isLoggedIn) => (~isPlaying /\ ~isPlaying' /\ showLoginModal')
       /\ (~isPlaying /\ isPlaying') => (isLoggedIn /\ TogglePlay)]_vars

\* Playing (which only togglePlay starts), signed out since, and the login
\* modal open.
C17_Witness == isPlaying /\ ~isLoggedIn /\ showLoginModal

\* Call k is the call an operation makes for its caller.
CallerCall(k) == calls[k].method \in {"tools/call", "tools/list"}

(***************************************************************************)
(* C18. The caller's call is POSTed only after the handshake: before the   *)
(* POST of a tools/call or tools/list the stream of the operation had      *)
(* delivered its endpoint event and an initialize and then a               *)
(* notifications/initialized of the operation had each been POSTed,        *)
(* answered without an error and returned.                                 *)
(***************************************************************************)
C18_CallerAfterHandshake ==
    \A k \in CallIds :
        (CallerCall(k) /\ Posted(k)) =>
            LET o == calls[k].op IN
            /\ streams[o].endpoints >= 1
            /\ streams[calls[k].endpoint].endpoints >= 1
            /\ calls[k].method = CallerMethod(o)
            /\ \E k1, k2 \in CallIds :
                  /\ k1 < k2 /\ k2 < k
                  /\ calls[k1].op = o /\ calls[k1].method = "initialize"
                  /\ calls[k2].op = o /\ calls[k2].method = "notifications/initialized"
                  /\ \A j \in {k1, k2} :
                        /\ calls[j].ret = "fulfilled" /\ calls[j].post = "done"
                        /\ calls[j].invoked = 1 /\ calls[j].resp.error = ""

\* A tools/list POSTed, and not yet answered, after a handshake.
C18_Witness ==
    \E k \in CallIds :
        /\ calls[k].method = "tools/list" /\ Posted(k) /\ calls[k].invoked = 0
        /\ ops[calls[k].op].state = "pending"

\* The calls of operation o with the given method.
CallsOf(o, method) == {k \in CallIds : calls[k].op = o /\ calls[k].method = method}

(***************************************************************************)
(* C19. The handshake calls are sequential: a notifications/initialized is *)
(* issued only after an initialize of the same operation was answered      *)
(* without an error and returned, and an operation issues no more of them  *)
(* than it has such initialize calls; none at all when every initialize    *)
(* was rejected.                                                           *)
(***************************************************************************)
C19_HandshakeSequential ==
    \A o \in OpIds :
        LET inits == {k \in CallsOf(o, "initialize") :
                        /\ calls[k].ret = "fulfilled" /\ calls[k].post = "done"
                        /\ calls[k].invoked = 1 /\ calls[k].resp.error = ""}
            notes == CallsOf(o, "notifications/initialized")
        IN  /\ \A k2 \in notes : \E k1 \in inits : k1 < k2
            /\ Cardinality(notes) <= Cardinality(inits)

\* An operation with one initialize rejected and one returned, and the one
\* notifications/initialized POSTed after the latter.
C19_Witness ==
    \E o \in OpIds : \E k1, k2, k3 \in CallIds :
        /\ {k1, k2} \subseteq CallsOf(o, "initialize")
        /\ calls[k1].ret = "rejected" /\ calls[k2].ret = "fulfilled"
        /\ CallsOf(o, "notifications/initialized") = {k3}
        /\ Posted(k3)

(***************************************************************************)
(* C20. notifications/initialized is fire-and-forget: once its POST has    *)
(* been delivered the operation issues its caller's call, whether or not   *)
(* the server has answered the notification.                               *)
(***************************************************************************)
C20_FireAndForget ==
    \A k \in CallIds :
        (/\ calls[k].method = "notifications/initialized"
         /\ calls[k].post = "done"
         /\ ops[calls[k].op].state = "pending") =>
            \E j \in CallIds : j > k /\ calls[j].op = calls[k].op /\ CallerCall(j)

\* Call k of instance c carried id i and has been answered.
Answered(c, i, k) == calls[k].client = c /\ calls[k].id = i /\ calls[k].invoked > 0

\* A continuation is invoked at most once, and its entry is gone by then.
C21_Once == \A k \in CallIds : calls[k].invoked <= 1 /\ (calls[k].invoked = 1 => ~Registered(k))

\* The delivery of a response removes the entry it answers; the delivery of
\* a response whose id was answered before changes nothing.
C21_Dispatch ==
    \A s \in 1..Len(streams) : \A i \in 0..MaxCalls :
        \A data \in Responses(ops[s].client, i) :
            MessageStep(s, data) =>
                LET c == ops[s].client IN
                /\ i \in DOMAIN pendingRequests[c] =>
                      /\ i \notin DOMAIN pendingRequests'[c]
                      /\ calls'[pendingRequests[c][i]].invoked = 1
                /\ (\E k \in CallIds : Answered(c, i, k)) => UNCHANGED vars

(***************************************************************************)
(* C21. A pending call is settled at most once and leaves the map when it  *)
(* is: the dispatch of a response with id i removes i from the map, and a  *)
(* second response with the same id, duplicate or late, invokes no         *)
(* continuation and changes no state.                                      *)
(***************************************************************************)
C21_AtMostOnce == [](C21_Once) /\ [][C21_Dispatch]_vars

\* A call answered while its POST was in flight, its entry gone, on a stream
\* that is still open to a duplicate.
C21_Witness ==
    \E k \in CallIds :
        /\ calls[k].invoked = 1 /\ calls[k].post = "inflight"
        /\ calls[k].id \notin DOMAIN pendingRequests[calls[k].client]
        /\ StreamOpen(calls[k].endpoint)

\* The error envelope with id i.
ErrorEnvelope(i) == [id |-> i, error |-> "boom", result |-> "undefined"]

\* What the handler run of onmessage does with an error envelope whose id is
\* pending on instance c: it rejects the call of that id and removes its
\* entry, and leaves every other call and entry, the streams, the session
\* address, the stream handle and the id counter as they are.
C22_Handler ==
    \A c \in Clients : \A i \in DOMAIN pendingRequests[c] :
        LET k == pendingRequests[c][i]
            S1 == onmessage(Cur, c, ErrorEnvelope(i))
        IN  /\ S1.calls[k].promise = "rejected"
            /\ S1.calls[k].invoked = 1
            /\ S1.pendingRequests[c] = MapDelete(pendingRequests[c], i)
            /\ \A j \in CallIds \ {k} : S1.calls[j] = calls[j]
            /\ S1.streams = streams /\ S1.ops = ops
            /\ S1.sessionEndpoint = sessionEndpoint
            /\ S1.eventSource = eventSource
            /\ S1.requestId = requestId

\* The delivery of an error envelope to a call whose POST is in flight (no
\* continuation runs yet): the other calls in flight stay in the map
\* un-invoked, the stream, the address and the counter are unchanged.
C22_Step ==
    \A s \in 1..Len(streams) : \A i \in DOMAIN pendingRequests[ops[s].client] :
        LET c == ops[s].client
            k == pendingRequests[c][i]
        IN  (MessageStep(s, ErrorEnvelope(i)) /\ calls[k].post = "inflight") =>
                /\ calls'[k].promise = "rejected"
                /\ pendingRequests'[c] = MapDelete(pendingRequests[c], i)
                /\ \A j \in CallIds \ {k} : calls'[j] = calls[j]
                /\ UNCHANGED <<streams, sessionEndpoint, eventSource, requestId, ops>>

Envelopes ==
    LET ids == {NoId} \cup (0..MaxCalls)
    IN  {[id |-> i, error |-> "boom", result |-> "undefined"] : i \in ids}
        \cup {[id |-> i, error |-> "", result |-> r] :
                i \in ids, r \in {"{}", "{content:[image,textX,textW]}"}}

\* Envelope data answers no pending call of instance c.
Unmatched(c, data) == data.id = NoId \/ data.id \notin DOMAIN pendingRequests[c]

(***************************************************************************)
(* C23. A message whose id is absent or matches no pending call is         *)
(* ignored: onmessage invokes no continuation and leaves the map, the      *)
(* session address, the stream handle, the id counter and everything else  *)
(* as it is, in every reachable state and for every envelope.              *)
(***************************************************************************)
C23_UnmatchedIgnored ==
    /\ [](\A c \in Clients : \A data \in Envelopes :
            Unmatched(c, data) => connectOnMessage(Cur, c, data) = Cur)
    /\ [][\A s \in 1..Len(streams) : \A data \in Envelopes :
            (MessageStep(s, data) /\ Unmatched(ops[s].client, data)) => UNCHANGED vars]_vars

\* A call waiting in the map on an open stream while the id of an earlier,
\* answered call is no longer pending: a message with that id, or with
\* none, can arrive.
C23_Witness ==
    \E k1, k2 \in CallIds :
        /\ calls[k1].client = calls[k2].client /\ calls[k1].endpoint = calls[k2].endpoint
        /\ calls[k1].invoked = 1 /\ Unmatched(calls[k1].client, calls[k1].resp)
        /\ Registered(k2) /\ calls[k2].invoked = 0 /\ calls[k2].post = "done"
        /\ StreamOpen(calls[k2].endpoint)

(***************************************************************************)
(* C24. cleanup, run in any reachable state, leaves the map empty, the     *)
(* session address null and the stream handle null with its stream closed; *)
(* it leaves the id counter, the other streams, the operations and the     *)
(* calls as they are; and run again it changes nothing. Accordingly an     *)
(* instance whose latest operation has settled holds no session state.     *)
(***************************************************************************)
C24_Cleanup ==
    /\ \A c \in Clients :
          LET S1 == cleanup(Cur, c)
              es == eventSource[c]
          IN  /\ S1.pendingRequests[c] = EmptyMap
              /\ S1.sessionEndpoint[c] = NULL
              /\ S1.eventSource[c] = NULL
              /\ es # NULL => S1.streams[es].state = "closed"
              /\ \A s \in 1..Len(streams) : s # es => S1.streams[s] = streams[s]
              /\ S1.requestId = requestId
              /\ S1.ops = ops /\ S1.calls = calls
              /\ cleanup(S1, c) = S1
    /\ \A o \in OpIds : (o = Len(ops) /\ ops[o].state # "pending") => TornDown(o)

\* cleanup has run twice for one operation (each failed handshake chain ran
\* it before calling back), after a call had advanced the counter, and the
\* instance holds no session state.
C24_Witness ==
    \E o \in OpIds :
        /\ o = Len(ops) /\ ops[o].callbacks >= 2 /\ ops[o].state = "rejected"
        /\ TornDown(o) /\ ~StreamOpen(o)
        /\ requestId[ops[o].client] >= 2

\* Call k is the first call POSTed to its session.
FirstOfSession(k) ==
    /\ Posted(k)
    /\ \A j \in 1..(k - 1) : Posted(j) => calls[j].endpoint # calls[k].endpoint

(***************************************************************************)
(* C25 as stated. The id counter is per connection and starts at 0: the    *)
(* first call POSTed to every session, a second session of the instance    *)
(* included, carries id 0.                                                 *)
(***************************************************************************)
C25_FirstIdZero == \A k \in CallIds : FirstOfSession(k) => calls[k].id = 0

(***************************************************************************)
(* C25. The id counter is per instance and starts at 0: a call carries the *)
(* number of calls the instance has POSTed before it, so the first call of *)
(* the instance carries id 0 and the first call of a later session goes on *)
(* from where the session before it stopped.                               *)
(***************************************************************************)
C25_PerInstanceCounter ==
    /\ \A k \in CallIds :
          Posted(k) =>
              calls[k].id = Cardinality({j \in 1..(k - 1) :
                                            Posted(j) /\ calls[j].client = calls[k].client})
    /\ \A c \in Clients :
          requestId[c] = Cardinality({j \in CallIds : Posted(j) /\ calls[j].client = c})

\* The initialize of a second session of an instance, carrying the id after
\* those of the first session.
C25_Witness ==
    \E k \in CallIds :
        /\ FirstOfSession(k) /\ calls[k].method = "initialize"
        /\ \E j \in 1..(k - 1) : Posted(j) /\ calls[j].client = calls[k].client
        /\ ~StreamOpen(calls[k - 1].endpoint)
        /\ calls[k].id > 0

\* A call whose POST is in flight on an open stream of a session that is still
\* the instance's is in the map until it is answered.
C26_Registered ==
    \A k \in CallIds :
        (/\ calls[k].post = "inflight" /\ calls[k].invoked = 0
         /\ StreamOpen(calls[k].endpoint)
         /\ sessionEndpoint[calls[k].client] = calls[k].endpoint) => Registered(k)

\* A response delivered while the POST of its call is in flight invokes the
\* continuation; the caller of sendRequest is not resumed yet.
C26_Early ==
    \A s \in 1..Len(streams) : \A i \in 0..MaxCalls :
        \A data \in Responses(ops[s].client, i) :
            (/\ MessageStep(s, data)
             /\ i \in DOMAIN pendingRequests[ops[s].client]
             /\ calls[pendingRequests[ops[s].client][i]].post = "inflight") =>
                LET k == pendingRequests[ops[s].client][i] IN
                /\ calls'[k].invoked = 1
                /\ calls'[k].resp = data
                /\ calls'[k].promise = IF data.error # "" THEN "rejected" ELSE "resolved"
                /\ calls'[k].ret = "pending"
                /\ ops' = ops /\ Len(calls') = Len(calls)

\* The completion of a POST whose call was answered before hands the caller
\* the response, and the caller goes on with it.
C26_Complete ==
    \A k \in CallIds :
        (calls[k].post = "inflight" /\ calls[k].invoked = 1 /\ calls'[k].post = "done") =>
            LET data == calls[k].resp
                o == calls[k].op IN
            /\ calls'[k].ret = IF data.error # "" THEN "rejected" ELSE "fulfilled"
            /\ calls'[k].retValue = IF data.error # "" THEN Error(data.error)
                                    ELSE <<"Result", data.result>>
            /\ (calls[k].method = "initialize" /\ data.error = "") =>
                  /\ Len(calls') = Len(calls) + 1
                  /\ calls'[Len(calls')].method = "notifications/initialized"
            /\ (CallerCall(k) /\ ops[o].state = "pending") =>
                  /\ ops'[o].state # "pending" /\ ops'[o].via = k
                  /\ data.error # "" =>
                        ops'[o].state = "rejected" /\ ops'[o].value = Error(data.error)
                  /\ (calls[k].method = "tools/list" /\ data.error = ""
                      /\ data.result # "undefined") =>
                        /\ ops'[o].state = "resolved"
                        /\ ops'[o].value = <<"Tools">> \o ToolsOf(data.result)

(***************************************************************************)
(* C26. sendRequest puts the entry of id i in the map before the POST      *)
(* carrying i is sent, so a response for i delivered on the stream while   *)
(* the POST is still in flight is correlated: it invokes the continuation  *)
(* of the call, and when the POST completes the caller of sendRequest      *)
(* receives that response and goes on with it.                             *)
(***************************************************************************)
C26_EarlyResponseCorrelated ==
    [](C26_Registered) /\ [][C26_Early /\ C26_Complete]_vars

\* The caller's tools/list answered with a result while its POST is in
\* flight, the operation still waiting for it.
C26_Witness ==
    \E k \in CallIds :
        /\ calls[k].method = "tools/list" /\ calls[k].post = "inflight"
        /\ calls[k].invoked = 1 /\ calls[k].promise = "resolved"
        /\ calls[k].ret = "pending" /\ ops[calls[k].op].state = "pending"

(***************************************************************************)
(* C27. connect invokes its callback at most once for a stream, whatever   *)
(* endpoint, message and error events the server delivers on it, a         *)
(* repeated endpoint event included: an operation runs the handshake at    *)
(* most once and issues its caller's call at most once.                    *)
(***************************************************************************)
C27_CallbackOnce ==
    \A o \in OpIds :
        /\ ops[o].callbacks <= 1
        /\ Cardinality(CallsOf(o, "initialize")) <= 1
        /\ Cardinality(CallsOf(o, "notifications/initialized")) <= 1
        /\ Cardinality(CallsOf(o, CallerMethod(o))) <= 1

\* Call k was POSTed and its entry left the map without an answer: cleanup
\* discarded it.
Discarded(k) == Posted(k) /\ ~Registered(k) /\ calls[k].invoked = 0

\* cleanup invokes no continuation, and a discarded call is unsettled: its
\* promise is pending, and so is what sendRequest returns once the POST is
\* delivered.
C28_Unsettled ==
    /\ \A c \in Clients : cleanup(Cur, c).calls = calls
    /\ \A k \in CallIds :
          Discarded(k) =>
              /\ calls[k].promise = "pending" /\ calls[k].resp = NoResp
              /\ calls[k].post = "done" => calls[k].ret = "pending"

\* An entry leaves the map answered, or with every other entry in a cleanup
\* that settles nothing; a discarded call stays discarded.
C28_Step ==
    \A k \in CallIds :
        /\ (Registered(k) /\ ~Registered(k)') =>
              \/ calls'[k].invoked = 1
              \/ /\ calls'[k].promise = "pending"
                 /\ pendingRequests'[calls[k].client] = EmptyMap
                 /\ sessionEndpoint'[calls[k].client] = NULL
        /\ Discarded(k) =>
              /\ Discarded(k)'
              /\ calls'[k].promise = "pending"
              /\ calls[k].post = "done" => calls'[k] = calls[k]

(***************************************************************************)
(* C28. cleanup discards the pending calls without invoking their          *)
(* continuations: a call in the map when cleanup runs is neither resolved  *)
(* nor rejected by it, and with its entry gone no later message settles    *)
(* it, so it stays unsettled for ever.                                     *)
(***************************************************************************)
C28_DiscardedNeverSettled == [](C28_Unsettled) /\ [][C28_Step]_vars

\* A call discarded with its POST delivered, and a later session of the
\* instance on which a response has been delivered since.
C28_Witness ==
    \E k, j \in CallIds :
        /\ Discarded(k) /\ calls[k].post = "done"
        /\ j > k /\ calls[j].client = calls[k].client
        /\ calls[j].endpoint # calls[k].endpoint /\ calls[j].invoked = 1

(***************************************************************************)
(* C29. The messages shown are at every moment a prefix of the script of   *)
(* the active topic, in the order of the script and without duplicates,    *)
(* and currentIndex is their number, however the typing and inter-turn     *)
(* timeouts interleave with handleTopicSelect and togglePlay.              *)
(***************************************************************************)
C29_PrefixOfActiveScript ==
    /\ Len(messages) <= ScriptLen(activeTopic)
    /\ \A i \in 1..Len(messages) : messages[i] = Script(activeTopic)[i]
    /\ currentIndex = Len(messages)

\* What a playback keeps: the index within the script, one turn thinking at
\* most, the messages those of the script in order, each once.
C30_Safe ==
    /\ currentIndex <= ScriptLen(activeTopic)
    /\ Len(typingTimers) <= 1
    /\ isThinking <=> Len(typingTimers) = 1
    /\ currentIndex = Len(messages)
    /\ \A i \in 1..Len(messages) : messages[i] = Script(activeTopic)[i]

\* While it plays, a step shows the messages it showed or the next one of the
\* script after them.
C30_Step ==
    isPlaying =>
        /\ activeTopic' = activeTopic
        /\ \/ messages' = messages
           \/ /\ Len(messages) < ScriptLen(activeTopic)
              /\ messages' = Append(messages, Script(activeTopic)[Len(messages) + 1])

\* A playback starts: playing, from the first message of the script.
C30_Started == isPlaying /\ currentIndex = 0 /\ messages = <<>>

\* The playback is over: every message of the script is shown and, after the
\* last one, it is not playing and nobody speaks.
C30_Over ==
    /\ messages = Script(activeTopic)
    /\ ScriptLen(activeTopic) > 0 => (~isPlaying /\ currentSpeaker = NoSpeaker)

====
